---- MODULE Spec2Model ----
(***************************************************************************)
(* parse_metrics.py: parse a key=value performance dump, derive four       *)
(* rates, print a table and append one row to a CSV file.                  *)
(*                                                                         *)
(* Text is a sequence of one-character tokens, except that a name          *)
(* ("total_reads", "k"), the repr of a float and a fixed label of the      *)
(* table are kept as one token each: no operation of the program looks     *)
(* inside them.  Python values are tagged records: int, str, float (an     *)
(* exact fraction in lowest terms) and None.  A file object buffers what   *)
(* is written to it and hands it to the file in one append when it is      *)
(* closed.                                                                 *)
(***************************************************************************)
EXTENDS Integers, Sequences, FiniteSets, TLC

\* ------------------------------------------------------------------ bounds
MaxCount == 1      \* counters of the rate inputs range over 0..MaxCount
MaxLines == 2      \* lines of a dump text given to parse_kv_lines
MaxRuns == 3       \* invocations of main against one CSV path

\* ------------------------------------------------------------------ values
IntV(n) == [t |-> "int", v |-> n]
StrV(s) == [t |-> "str", v |-> s]
None == [t |-> "none", v |-> 0]
TypeError == [t |-> "raise", v |-> "TypeError"]

Abs(n) == IF n < 0 THEN 0 - n ELSE n

RECURSIVE Gcd(_, _)
Gcd(a, b) == IF b = 0 THEN a ELSE Gcd(b, a % b)

\* The float n / d, kept exact: lowest terms, positive denominator; 0 / d
\* with d < 0 is the negative zero, kept as <<0, -1>>.
FloatV(n, d) ==
    LET g == Gcd(Abs(n), Abs(d))
        s == IF d < 0 THEN 0 - 1 ELSE 1
    IN IF n = 0 THEN [t |-> "float", v |-> <<0, s>>]
       ELSE [t |-> "float", v |-> <<(s * n) \div g, (s * d) \div g>>]

IsRaise(x) == x.t = "raise"

\* ------------------------------------------------------------------ text
NL == "\n"
FF == "\f"
Terminators == {NL, FF}       \* two of the line boundaries of str.splitlines
Space == " "
Tab == "\t"
Whitespace == {Space, Tab}
Digits == {"0", "1", "2", "3", "4", "5", "6", "7", "8", "9"}
DigitVal == [c \in Digits |->
               CASE c = "0" -> 0 [] c = "1" -> 1 [] c = "2" -> 2 [] c = "3" -> 3
                 [] c = "4" -> 4 [] c = "5" -> 5 [] c = "6" -> 6 [] c = "7" -> 7
                 [] c = "8" -> 8 [] c = "9" -> 9]

\* str.splitlines(): cut at every line terminator; a terminator at the very
\* end opens no further line.
RECURSIVE SplitFrom(_, _, _)
SplitFrom(s, i, cur) ==
    IF i > Len(s) THEN (IF cur = <<>> THEN <<>> ELSE <<cur>>)
    ELSE IF s[i] \in Terminators THEN <<cur>> \o SplitFrom(s, i + 1, <<>>)
    ELSE SplitFrom(s, i + 1, Append(cur, s[i]))

splitlines(s) == SplitFrom(s, 1, <<>>)

RECURSIVE lstrip(_)
lstrip(s) == IF s # <<>> /\ Head(s) \in Whitespace THEN lstrip(Tail(s)) ELSE s

RECURSIVE rstrip(_)
rstrip(s) ==
    IF s # <<>> /\ s[Len(s)] \in Whitespace THEN rstrip(SubSeq(s, 1, Len(s) - 1)) ELSE s

\* str.strip()
strip(s) == rstrip(lstrip(s))

\* line.startswith("#")
startswith(s, c) == s # <<>> /\ Head(s) = c

\* "=" in line
contains(s, c) == \E i \in 1..Len(s) : s[i] = c

\* Index of the first occurrence of c in s (s contains c).
find(s, c) == CHOOSE i \in 1..Len(s) : s[i] = c /\ \A j \in 1..(i - 1) : s[j] # c

\* line.split("=", 1): the parts before and after the first "=".
split1(s, c) == <<SubSeq(s, 1, find(s, c) - 1), SubSeq(s, find(s, c) + 1, Len(s))>>

RECURSIVE DecVal(_)
DecVal(s) == IF s = <<>> THEN 0 ELSE 10 * DecVal(SubSeq(s, 1, Len(s) - 1)) + DigitVal[s[Len(s)]]

\* int(val) on stripped text: an optional sign and at least one digit, or
\* ValueError.
int(s) ==
    LET signed == s # <<>> /\ Head(s) \in {"+", "-"}
        body == IF signed THEN Tail(s) ELSE s
        ok == body # <<>> /\ \A i \in 1..Len(body) : body[i] \in Digits
    IN IF ~ok THEN [t |-> "raise", v |-> "ValueError"]
       ELSE IntV(IF signed /\ Head(s) = "-" THEN 0 - DecVal(body) ELSE DecVal(body))

\* Mutant: the first value of a key is kept.
DictSetDefault(data, key, value) ==
    IF key \in DOMAIN data THEN data
    ELSE [k \in DOMAIN data \cup {key} |-> IF k = key THEN value ELSE data[k]]

\* data[key] = value
DictSet(data, key, value) ==
    [k \in DOMAIN data \cup {key} |-> IF k = key THEN value ELSE data[k]]

EmptyDict == [k \in {} |-> None]

\* One iteration of the loop of parse_kv_lines.
\* Mutant: the comment test made on the line as read, before it is stripped.
ParseLineRawComment(st, rawline) ==
    LET line == strip(rawline) IN
    IF line = <<>> \/ startswith(rawline, "#") THEN st
    ELSE IF ~contains(line, "=") THEN st
    ELSE LET kv == split1(line, "=")
             key == strip(kv[1])
             val == strip(kv[2])
             n == int(val)
         IN IF IsRaise(n)
            THEN (IF n.v = "ValueError"
                  THEN [st EXCEPT !.data = DictSet(@, key, StrV(val))]
                  ELSE [st EXCEPT !.raised = n])
            ELSE [st EXCEPT !.data = DictSet(@, key, n)]

\* One iteration of the loop of parse_kv_lines on st = [raised, data].  Only
\* ValueError is caught; any other exception of int() would leave the
\* function.
ParseLine(st, rawline) ==
    LET line == strip(rawline) IN
    IF line = <<>> \/ startswith(line, "#") THEN st
    ELSE IF ~contains(line, "=") THEN st
    ELSE LET kv == split1(line, "=")
             key == strip(kv[1])
             val == strip(kv[2])
             n == int(val)
         IN IF IsRaise(n)
            THEN (IF n.v = "ValueError"
                  THEN [st EXCEPT !.data = DictSet(@, key, StrV(val))]
                  ELSE [st EXCEPT !.raised = n])
            ELSE [st EXCEPT !.data = DictSet(@, key, n)]

RECURSIVE ParseLines(_, _)
ParseLines(st, lines) ==
    IF lines = <<>> \/ st.raised # None THEN st
    ELSE ParseLines(ParseLine(st, Head(lines)), Tail(lines))

\* parse_kv_lines(text): [raised |-> None, data |-> the dictionary returned],
\* or raised is the exception that left the function.
parse_kv_lines(text) == ParseLines([raised |-> None, data |-> EmptyDict], splitlines(text))

\* d.get(key, default)
get(d, key, default) == IF key \in DOMAIN d THEN d[key] ELSE default

\* ------------------------------------------------------------------ rates
\* n + d of Python: int + int, str + str (concatenation); anything else is a
\* TypeError.  A raised exception propagates through every later statement.
Add(a, b) ==
    IF IsRaise(a) THEN a
    ELSE IF IsRaise(b) THEN b
    ELSE IF a.t = "int" /\ b.t = "int" THEN IntV(a.v + b.v)
    ELSE IF a.t = "str" /\ b.t = "str" THEN StrV(a.v \o b.v)
    ELSE TypeError

\* bool(x): a nonzero int, a nonempty str.
Truthy(x) ==
    CASE x.t = "int" -> x.v # 0
      [] x.t = "str" -> x.v # <<>>
      [] x.t = "float" -> x.v[1] # 0
      [] OTHER -> FALSE

\* n / d of Python: true division of two ints; a str or None operand is a
\* TypeError.
TrueDiv(n, d) ==
    IF n.t = "int" /\ d.t = "int"
    THEN (IF d.v = 0 THEN [t |-> "raise", v |-> "ZeroDivisionError"] ELSE FloatV(n.v, d.v))
    ELSE TypeError

\* Mutant: the division without its guard.
safe_div_unguarded(n, d) ==
    IF IsRaise(n) THEN n
    ELSE IF IsRaise(d) THEN d
    ELSE TrueDiv(n, d)

safe_div(n, d) ==
    IF IsRaise(n) THEN n
    ELSE IF IsRaise(d) THEN d
    ELSE IF Truthy(d) THEN TrueDiv(n, d) ELSE None

\* Mutant: presence of cycles_bus_busy tested by truthiness, so that a
\* present 0 counts as absent.
BusUtilizationTruthy(cycles_bus_busy, cycles) ==
    IF Truthy(cycles_bus_busy) THEN safe_div(cycles_bus_busy, cycles) ELSE None

\* Line 65.
BusUtilization(cycles_bus_busy, cycles) ==
    IF cycles_bus_busy # None THEN safe_div(cycles_bus_busy, cycles) ELSE None

Key(name) == <<name>>

KnownFields ==
    <<"total_reads", "read_hits", "read_misses", "total_writes", "write_hits",
      "write_misses", "coherency_invalidates", "cycles", "cycles_bus_busy">>

RateFields == <<"cache_hit_rate", "cache_miss_rate", "coherency_miss_rate", "bus_utilization">>

fieldnames == KnownFields \o RateFields

\* The locals of main after lines 48-65, by name.
Locals(d) ==
    LET total_reads == get(d, Key("total_reads"), IntV(0))
        read_hits == get(d, Key("read_hits"), IntV(0))
        read_misses == get(d, Key("read_misses"), IntV(0))
        total_writes == get(d, Key("total_writes"), IntV(0))
        write_hits == get(d, Key("write_hits"), IntV(0))
        write_misses == get(d, Key("write_misses"), IntV(0))
        coherency_invalidates == get(d, Key("coherency_invalidates"), IntV(0))
        cycles == get(d, Key("cycles"), IntV(0))
        cycles_bus_busy == get(d, Key("cycles_bus_busy"), None)
        total_accesses == Add(total_reads, total_writes)
        total_hits == Add(read_hits, write_hits)
        total_misses == Add(read_misses, write_misses)
    IN [total_reads |-> total_reads, read_hits |-> read_hits, read_misses |-> read_misses,
        total_writes |-> total_writes, write_hits |-> write_hits,
        write_misses |-> write_misses, coherency_invalidates |-> coherency_invalidates,
        cycles |-> cycles, cycles_bus_busy |-> cycles_bus_busy,
        total_accesses |-> total_accesses, total_hits |-> total_hits,
        total_misses |-> total_misses,
        cache_hit_rate |-> safe_div(total_hits, total_accesses),
        cache_miss_rate |-> safe_div(total_misses, total_accesses),
        coherency_miss_rate |-> safe_div(coherency_invalidates, total_reads),
        bus_utilization |-> BusUtilization(cycles_bus_busy, cycles)]

\* The statements of lines 58-65 in program order; the first that raises
\* aborts main.
Statements ==
    <<"total_accesses", "total_hits", "total_misses", "cache_hit_rate",
      "cache_miss_rate", "coherency_miss_rate", "bus_utilization">>

Raised(loc) ==
    IF \E i \in 1..Len(Statements) : IsRaise(loc[Statements[i]])
    THEN loc[Statements[CHOOSE i \in 1..Len(Statements) :
                 /\ IsRaise(loc[Statements[i]])
                 /\ \A j \in 1..(i - 1) : ~IsRaise(loc[Statements[j]])]]
    ELSE None

\* ------------------------------------------------------------------ output
DigitChar == <<"0", "1", "2", "3", "4", "5", "6", "7", "8", "9">>

RECURSIVE NatToTokens(_)
NatToTokens(n) ==
    IF n < 10 THEN <<DigitChar[n + 1]>> ELSE NatToTokens(n \div 10) \o <<DigitChar[(n % 10) + 1]>>

IntToTokens(n) == IF n < 0 THEN <<"-">> \o NatToTokens(0 - n) ELSE NatToTokens(n)

\* str(x) as tokens.  repr of a float is one token: it is unique to the
\* float and nothing looks inside it.
str(x) ==
    CASE x.t = "int" -> IntToTokens(x.v)
      [] x.t = "str" -> x.v
      [] x.t = "float" -> <<"float" \o ToString(x.v)>>
      [] OTHER -> <<"None">>

\* f"{x:.4f}": x rounded to four decimals (ties to even), as
\* sign, integer part, ".", four digits.
Fix4(x) ==
    LET n == x.v[1]
        den == Abs(x.v[2])
        q == (Abs(n) * 10000) \div den
        r == (Abs(n) * 10000) % den
        m == IF 2 * r > den \/ (2 * r = den /\ q % 2 = 1) THEN q + 1 ELSE q
        frac == m % 10000
        pad == IF frac < 10 THEN <<"0", "0", "0">>
               ELSE IF frac < 100 THEN <<"0", "0">>
               ELSE IF frac < 1000 THEN <<"0">> ELSE <<>>
    IN (IF n < 0 \/ x.v[2] < 0 THEN <<"-">> ELSE <<>>)
       \o NatToTokens(m \div 10000) \o <<".">> \o pad \o NatToTokens(frac)

fmt_rate(x) == IF x = None THEN <<"N/A">> ELSE Fix4(x)

\* Lines 67-79: the heading, the eight counters, the cycles_bus_busy line when
\* the value is not None, and the closing rule.
CounterLines(loc) ==
    <<<<"Metric                       Value">>,
      <<"--------------------------------------">>,
      <<"total_reads                 ">> \o str(loc.total_reads),
      <<"read_hits                   ">> \o str(loc.read_hits),
      <<"read_misses                 ">> \o str(loc.read_misses),
      <<"total_writes                ">> \o str(loc.total_writes),
      <<"write_hits                  ">> \o str(loc.write_hits),
      <<"write_misses                ">> \o str(loc.write_misses),
      <<"coherency_invalidates       ">> \o str(loc.coherency_invalidates),
      <<"cycles                      ">> \o str(loc.cycles)>>
    \o (IF loc.cycles_bus_busy # None
        THEN <<<<"cycles_bus_busy             ">> \o str(loc.cycles_bus_busy)>>
        ELSE <<>>)
    \o <<<<"--------------------------------------">>>>

\* Lines 80-83.
RateLines(loc) ==
    <<<<"cache_hit_rate              ">> \o fmt_rate(loc.cache_hit_rate),
      <<"cache_miss_rate             ">> \o fmt_rate(loc.cache_miss_rate),
      <<"coherency_miss_rate         ">> \o fmt_rate(loc.coherency_miss_rate),
      <<"bus_utilization             ">> \o fmt_rate(loc.bus_utilization)>>

Table(loc) == CounterLines(loc) \o RateLines(loc)

\* Lines 93-107: the row dictionary, None replaced by "" in the five
\* nullable columns.
OrEmpty(x) == IF x # None THEN x ELSE StrV(<<>>)

row(loc) ==
    [total_reads |-> loc.total_reads, read_hits |-> loc.read_hits,
     read_misses |-> loc.read_misses, total_writes |-> loc.total_writes,
     write_hits |-> loc.write_hits, write_misses |-> loc.write_misses,
     coherency_invalidates |-> loc.coherency_invalidates, cycles |-> loc.cycles,
     cycles_bus_busy |-> OrEmpty(loc.cycles_bus_busy),
     cache_hit_rate |-> OrEmpty(loc.cache_hit_rate),
     cache_miss_rate |-> OrEmpty(loc.cache_miss_rate),
     coherency_miss_rate |-> OrEmpty(loc.coherency_miss_rate),
     bus_utilization |-> OrEmpty(loc.bus_utilization)]

Comma == ","
CRLF == "\r\n"

\* csv.writer: the cells joined by "," and ended by the line terminator.  No
\* cell of the model holds a character that needs quoting.
RECURSIVE JoinCells(_)
JoinCells(cells) ==
    IF Len(cells) = 1 THEN Head(cells)
    ELSE Head(cells) \o <<Comma>> \o JoinCells(Tail(cells))

CsvLine(cells) == JoinCells(cells) \o <<CRLF>>

\* writer.writeheader()
HeaderLine == CsvLine([i \in 1..Len(fieldnames) |-> <<fieldnames[i]>>])

\* writer.writerow(row)
RowLine(r) == CsvLine([i \in 1..Len(fieldnames) |-> str(r[fieldnames[i]])])

\* ------------------------------------------------------------------ state
VARIABLES
    plines, pnl, pterm, pstage, pd0, pd, pins,    \* parse_kv_lines on a text
    cin, cbad, cres, cref,                        \* main on the fields of a dump
    pc, input, d, loc, out, write_header, buf,    \* invocations of main
    err, run, csvAtStart,
    csv, csv0, runs, hist, hdrs                   \* the CSV path and its history

parseVars == <<plines, pnl, pterm, pstage, pd0, pd, pins>>
calcVars == <<cin, cbad, cres, cref>>
procVars == <<pc, input, d, loc, out, write_header, buf, err, run, csvAtStart>>
fileVars == <<csv, csv0, runs, hist, hdrs>>
vars == <<parseVars, calcVars, procVars, fileVars>>

Procs == {1, 2}
NotRun == [t |-> "notrun", v |-> 0]
Missing == [t |-> "missing", v |-> 0]
AbsentFile == [exists |-> FALSE, content |-> <<>>]

ParseIdle ==
    /\ plines = <<>> /\ pnl = TRUE /\ pterm = NL /\ pstage = "off"
    /\ pd0 = NotRun /\ pd = NotRun /\ pins = <<>>

CalcIdle == cin = NotRun /\ cbad = "none" /\ cres = NotRun /\ cref = NotRun

ProcIdle ==
    /\ pc = [p \in Procs |-> "idle"]
    /\ input = [p \in Procs |-> Missing]
    /\ d = [p \in Procs |-> EmptyDict]
    /\ loc = [p \in Procs |-> NotRun]
    /\ out = [p \in Procs |-> <<>>]
    /\ write_header = [p \in Procs |-> FALSE]
    /\ buf = [p \in Procs |-> <<>>]
    /\ err = [p \in Procs |-> "none"]
    /\ run = [p \in Procs |-> 0]
    /\ csvAtStart = [p \in Procs |-> AbsentFile]

FileIdle(f) == csv = f /\ csv0 = f /\ runs = 0 /\ hist = <<>> /\ hdrs = 0

\* ------------------------------------------------------------------ main on a dump
\* The dump text that gives each field of `fields` that is not None as one
\* line "name=value".
RECURSIVE DumpFrom(_, _)
DumpFrom(fields, i) ==
    IF i > Len(KnownFields) THEN <<>>
    ELSE (IF fields[KnownFields[i]] = None THEN <<>>
          ELSE <<KnownFields[i], "=">> \o str(fields[KnownFields[i]]) \o <<NL>>)
         \o DumpFrom(fields, i + 1)

DumpText(fields) == DumpFrom(fields, 1)

\* Lines 46-107 of main on a text that was read: the exception that ends the
\* run, or the locals, the printed table and the CSV row.
MainResult(text) ==
    LET parsed == parse_kv_lines(text)
        l == Locals(parsed.data)
    IN
    IF parsed.raised # None
    THEN [raised |-> parsed.raised, loc |-> NotRun, table |-> <<>>, line |-> <<>>]
    ELSE IF Raised(l) # None
    THEN [raised |-> Raised(l), loc |-> NotRun, table |-> <<>>, line |-> <<>>]
    ELSE [raised |-> None, loc |-> l, table |-> Table(l), line |-> RowLine(row(l))]

Counters(lo) == {IntV(n) : n \in lo..MaxCount}

\* Integer inputs: denominators may be negative, a field may be missing.
IntInputs ==
    [total_reads : Counters(0 - 1) \cup {None}, read_hits : Counters(0),
     read_misses : Counters(0), total_writes : Counters(0 - 1),
     write_hits : Counters(0), write_misses : Counters(0),
     coherency_invalidates : Counters(0), cycles : Counters(0 - 1) \cup {None},
     cycles_bus_busy : Counters(0) \cup {None}]

\* Values of a dump line that int() rejects: "x", the empty value, "1.5".
BadValues == {StrV(<<"x">>), StrV(<<>>), StrV(<<"1", ".", "5">>)}

FieldSet == {KnownFields[i] : i \in 1..Len(KnownFields)}

CalcInit ==
    /\ cin \in IntInputs
    /\ cbad = "none" /\ cres = NotRun /\ cref = NotRun
    /\ ParseIdle /\ ProcIdle /\ FileIdle(AbsentFile)

CoerceInit ==
    /\ \E base \in [FieldSet -> {None, IntV(1)}], f \in FieldSet, b \in BadValues :
          /\ cin = [base EXCEPT ![f] = b]
          /\ cbad = f
    /\ cres = NotRun /\ cref = NotRun
    /\ ParseIdle /\ ProcIdle /\ FileIdle(AbsentFile)

\* main on the dump of cin.
CalcRun ==
    /\ cres = NotRun
    /\ cres' = MainResult(DumpText(cin))
    /\ UNCHANGED <<cin, cbad, cref, parseVars, procVars, fileVars>>

\* main on the same dump with the line of the field cbad removed.
CalcRunWithout ==
    /\ cbad # "none" /\ cref = NotRun
    /\ cref' = MainResult(DumpText([cin EXCEPT ![cbad] = None]))
    /\ UNCHANGED <<cin, cbad, cres, parseVars, procVars, fileVars>>

CalcNext == CalcRun
CalcSpec == CalcInit /\ [][CalcNext]_vars

CoerceNext == CalcRun \/ CalcRunWithout
CoerceSpec == CoerceInit /\ [][CoerceNext]_vars

\* ------------------------------------------------------------------ claims on the rates
\* The integer a dump gives a field; a missing counter counts as 0.
Given(f) == IF cin[f] = None THEN 0 ELSE cin[f].v

\* r is the float n / dn.
IsQuotient(r, n, dn) == r.t = "float" /\ r.v[2] # 0 /\ r.v[1] * dn = n * r.v[2]

\* C3: for integer inputs bus_utilization is non-null exactly when
\* cycles_bus_busy is present and cycles # 0, and then it is
\* cycles_bus_busy / cycles.
C3_BusUtilization ==
    cres # NotRun =>
        /\ cres.raised = None
        /\ (cres.loc.bus_utilization # None)
              <=> (cin.cycles_bus_busy # None /\ Given("cycles") # 0)
        /\ cres.loc.bus_utilization # None =>
              IsQuotient(cres.loc.bus_utilization, Given("cycles_bus_busy"), Given("cycles"))

\* A present cycles_bus_busy = 0 with cycles # 0 gave the rate 0, not null.
C3_Witness ==
    /\ cres # NotRun
    /\ cin.cycles_bus_busy = IntV(0) /\ Given("cycles") # 0
    /\ cres.loc.bus_utilization \in {FloatV(0, 1), FloatV(0, 0 - 1)}

\* C4: for integer inputs the cache rates are null exactly when
\* total_reads + total_writes = 0 and the coherency rate exactly when
\* total_reads = 0; otherwise each is its quotient; nothing is raised.
C4_CacheRates ==
    cres # NotRun =>
        LET acc == Given("total_reads") + Given("total_writes") IN
        /\ cres.raised = None
        /\ (cres.loc.cache_hit_rate = None) <=> (acc = 0)
        /\ (cres.loc.cache_miss_rate = None) <=> (acc = 0)
        /\ (cres.loc.coherency_miss_rate = None) <=> (Given("total_reads") = 0)
        /\ acc # 0 =>
              /\ IsQuotient(cres.loc.cache_hit_rate,
                            Given("read_hits") + Given("write_hits"), acc)
              /\ IsQuotient(cres.loc.cache_miss_rate,
                            Given("read_misses") + Given("write_misses"), acc)
        /\ Given("total_reads") # 0 =>
              IsQuotient(cres.loc.coherency_miss_rate,
                         Given("coherency_invalidates"), Given("total_reads"))

\* Nonzero reads and writes that cancel: the cache rates are null while the
\* coherency rate is a number.
C4_Witness ==
    /\ cres # NotRun
    /\ Given("total_reads") # 0
    /\ Given("total_reads") + Given("total_writes") = 0
    /\ cres.loc.cache_hit_rate = None /\ cres.loc.cache_miss_rate = None
    /\ cres.loc.coherency_miss_rate # None

\* C2: a known field with a value that is not an integer is treated as if
\* its line were absent: the run raises nothing and its rates, table and CSV
\* row are those of the dump without that line.
C2_NonIntegerAsAbsent ==
    (cres # NotRun /\ cref # NotRun) => (cres.raised = None /\ cres = cref)

\* ------------------------------------------------------------------ parse_kv_lines on a text
Pads == {<<>>, <<Space>>}
DumpKeys == {<<"k">>, <<"j">>}
DumpValues == {<<"1">>, <<"-", "2">>, <<"x">>, <<"1", "=", "2">>}

\* Lines "key=value", bare or padded with whitespace at every place.
AssignLines ==
    {p \o k \o p \o <<"=">> \o p \o v \o p : p \in Pads, k \in DumpKeys, v \in DumpValues}

\* Lines that are empty, whitespace only, a comment (also one holding "=")
\* or without "=".
IgnoredLines ==
    {<<>>, <<Space, Tab>>, <<"#">>, <<Space, "#", "k", "=", "1">>, <<"#", "=">>,
     <<"k">>, <<Space, "k", Space, "1">>}

TextLines == AssignLines \cup {<<>>, <<"#", "k", "=", "1">>}

\* The text of the lines, each ended by the terminator; the last one only
\* when final.
RECURSIVE JoinLines(_, _, _)
JoinLines(lines, term, final) ==
    IF lines = <<>> THEN <<>>
    ELSE IF Len(lines) = 1 THEN Head(lines) \o (IF final THEN <<term>> ELSE <<>>)
    ELSE Head(lines) \o <<term>> \o JoinLines(Tail(lines), term, final)

InsertAt(lines, i, l) == SubSeq(lines, 1, i - 1) \o <<l>> \o SubSeq(lines, i, Len(lines))

ParseInit ==
    /\ plines \in UNION {[1..n -> TextLines] : n \in 0..MaxLines}
    /\ pnl \in BOOLEAN
    /\ pterm \in Terminators
    /\ pstage = "new" /\ pd0 = NotRun /\ pd = NotRun /\ pins = <<>>
    /\ CalcIdle /\ ProcIdle /\ FileIdle(AbsentFile)

\* parse_kv_lines(text)
PParse ==
    /\ pstage = "new"
    /\ pd0' = parse_kv_lines(JoinLines(plines, pterm, pnl))
    /\ pd' = pd0'
    /\ pstage' = "parsed"
    /\ UNCHANGED <<plines, pnl, pterm, pins, calcVars, procVars, fileVars>>

\* parse_kv_lines on the text with one ignored line put in at line i.
PInsert ==
    /\ pstage = "parsed"
    /\ \E i \in 1..(Len(plines) + 1), l \in IgnoredLines :
          /\ plines' = InsertAt(plines, i, l)
          /\ pins' = l
    /\ pd' = parse_kv_lines(JoinLines(plines', pterm, pnl))
    /\ pstage' = "inserted"
    /\ UNCHANGED <<pnl, pterm, pd0, calcVars, procVars, fileVars>>

ParseNext == PParse \/ PInsert
ParseSpec == ParseInit /\ [][ParseNext]_vars

\* C7: putting an empty line, a whitespace line, a comment line (even one
\* holding "=") or a line without "=" anywhere into a text leaves the
\* MetricRecord of parse_kv_lines as it was, and parse_kv_lines raises
\* nothing.
C7_IgnoredLines ==
    /\ pstage \in {"parsed", "inserted"} => pd.raised = None /\ pd0.raised = None
    /\ pstage = "inserted" => pd.data = pd0.data

\* A comment holding "k=1" went into a text that sets j and not k, and k
\* stayed unset.
C7_Witness ==
    /\ pstage = "inserted"
    /\ pins = <<Space, "#", "k", "=", "1">>
    /\ pd0.data # EmptyDict
    /\ <<"k">> \notin DOMAIN pd.data

\* The claim's reading of a line: it is well formed when, stripped, it is
\* not empty, does not begin with "#" and holds "="; its key and value are
\* the stripped parts before and after its first "=".
WellFormed(line) ==
    LET s == strip(line) IN
    s # <<>> /\ s[1] # "#" /\ \E i \in 1..Len(s) : s[i] = "="

FirstEq(s) == CHOOSE i \in 1..Len(s) : s[i] = "=" /\ \A j \in 1..Len(s) : s[j] = "=" => i <= j

KeyOf(line) == LET s == strip(line) IN strip(SubSeq(s, 1, FirstEq(s) - 1))

ValueOf(line) ==
    LET s == strip(line)
        v == strip(SubSeq(s, FirstEq(s) + 1, Len(s)))
    IN IF IsRaise(int(v)) THEN StrV(v) ELSE int(v)

LinesOf(K) == {i \in 1..Len(plines) : WellFormed(plines[i]) /\ KeyOf(plines[i]) = K}

Last(S) == CHOOSE i \in S : \A j \in S : j <= i

\* C9: a key holds the value of the last well-formed line that gives it (an
\* integer when that value parses, else the trimmed string), whatever the
\* earlier lines gave; a line is split at its first "=" only.
C9_LastWins ==
    pstage \in {"parsed", "inserted"} =>
        \A K \in DumpKeys :
            IF LinesOf(K) = {} THEN K \notin DOMAIN pd.data
            ELSE K \in DOMAIN pd.data /\ pd.data[K] = ValueOf(plines[Last(LinesOf(K))])

\* k is given twice, first as an integer and last as "1=2", which is kept
\* whole as a string.
C9_Witness ==
    /\ pstage = "parsed"
    /\ Cardinality(LinesOf(<<"k">>)) = 2
    /\ pd.data[<<"k">>] = StrV(<<"1", "=", "2">>)
    /\ \E i \in LinesOf(<<"k">>) : ValueOf(plines[i]) = IntV(1)

\* ------------------------------------------------------------------ invocations of main
\* Dump files an invocation may be pointed at: a full dump with a comment
\* and padded lines, a dump without cycles_bus_busy whose rates are partly
\* null, a dump whose total_reads is not a number (line 58 raises), and a
\* dump whose cycles is not a number and is never used in arithmetic.
SampleDumps ==
    {<<"#", Space, "run", NL, "total_reads", "=", "2", NL, "read_hits", Space, "=",
       Space, "1", NL, "cycles", "=", "4", NL, "cycles_bus_busy", "=", "1", NL>>,
     <<"total_writes", "=", "1", NL>>,
     <<"total_reads", "=", "x", NL>>,
     <<"cycles", "=", "abc", NL>>}

Inputs == {Missing} \cup {[t |-> "text", v |-> x] : x \in SampleDumps}

\* What may be at the CSV path before the first invocation: nothing, an
\* empty file, a header alone, a row without header, an unfinished last line.
Csv0Set ==
    {AbsentFile,
     [exists |-> TRUE, content |-> <<>>],
     [exists |-> TRUE, content |-> HeaderLine],
     [exists |-> TRUE, content |-> <<"old", Comma, "7", CRLF>>],
     [exists |-> TRUE, content |-> <<"old", Comma, "7">>]}

Quiescent == \A p \in Procs : pc[p] \in {"idle", "done", "failed"}

Fail(p, e) ==
    /\ pc' = [pc EXCEPT ![p] = "failed"]
    /\ err' = [err EXCEPT ![p] = e]

\* Lines 39-43: a new process, pointed at an input path and the CSV path.
Start(p) ==
    /\ pc[p] \in {"idle", "done", "failed"}
    /\ runs < MaxRuns
    /\ runs' = runs + 1
    /\ \E i \in Inputs : input' = [input EXCEPT ![p] = i]
    /\ pc' = [pc EXCEPT ![p] = "read"]
    /\ d' = [d EXCEPT ![p] = EmptyDict]
    /\ loc' = [loc EXCEPT ![p] = NotRun]
    /\ out' = [out EXCEPT ![p] = <<>>]
    /\ write_header' = [write_header EXCEPT ![p] = FALSE]
    /\ buf' = [buf EXCEPT ![p] = <<>>]
    /\ err' = [err EXCEPT ![p] = "none"]
    /\ run' = [run EXCEPT ![p] = runs + 1]
    /\ csvAtStart' = [csvAtStart EXCEPT ![p] = csv]
    /\ UNCHANGED <<csv, csv0, hist, hdrs, parseVars, calcVars>>

\* An invocation that begins when no other one is running.
StartSeq(p) == Quiescent /\ Start(p)

\* Mutant: the CSV file is opened, hence created, before the input is read.
ReadAfterCsvOpen(p) ==
    /\ pc[p] = "read"
    /\ csv' = [exists |-> TRUE, content |-> csv.content]
    /\ IF input[p] = Missing
       THEN Fail(p, "OSError(input)")
       ELSE pc' = [pc EXCEPT ![p] = "parse"] /\ err' = err
    /\ UNCHANGED <<input, d, loc, out, write_header, buf, run, csvAtStart,
                   csv0, runs, hist, hdrs, parseVars, calcVars>>

\* Line 45: read_text raises when the input is missing or unreadable.
Read(p) ==
    /\ pc[p] = "read"
    /\ IF input[p] = Missing
       THEN Fail(p, "OSError(input)")
       ELSE pc' = [pc EXCEPT ![p] = "parse"] /\ err' = err
    /\ UNCHANGED <<input, d, loc, out, write_header, buf, run, csvAtStart,
                   fileVars, parseVars, calcVars>>

\* Line 46.
Parse(p) ==
    /\ pc[p] = "parse"
    /\ LET parsed == parse_kv_lines(input[p].v) IN
       IF parsed.raised # None
       THEN Fail(p, parsed.raised.v) /\ d' = d
       ELSE /\ d' = [d EXCEPT ![p] = parsed.data]
            /\ pc' = [pc EXCEPT ![p] = "compute"]
            /\ err' = err
    /\ UNCHANGED <<input, loc, out, write_header, buf, run, csvAtStart,
                   fileVars, parseVars, calcVars>>

\* Lines 48-65: the first statement that raises ends the run.
Compute(p) ==
    /\ pc[p] = "compute"
    /\ LET l == Locals(d[p]) IN
       IF Raised(l) # None
       THEN Fail(p, Raised(l).v) /\ loc' = loc
       ELSE /\ loc' = [loc EXCEPT ![p] = l]
            /\ pc' = [pc EXCEPT ![p] = "print"]
            /\ err' = err
    /\ UNCHANGED <<input, d, out, write_header, buf, run, csvAtStart,
                   fileVars, parseVars, calcVars>>

\* Lines 67-79.
PrintCounters(p) ==
    /\ pc[p] = "print"
    /\ out' = [out EXCEPT ![p] = @ \o CounterLines(loc[p])]
    /\ pc' = [pc EXCEPT ![p] = "rates"]
    /\ UNCHANGED <<input, d, loc, write_header, buf, err, run, csvAtStart,
                   fileVars, parseVars, calcVars>>

\* Mutant: the rate lines are not printed before the CSV is touched.
PrintRatesSkipped(p) ==
    /\ pc[p] = "rates"
    /\ pc' = [pc EXCEPT ![p] = "exists"]
    /\ UNCHANGED <<input, d, loc, out, write_header, buf, err, run, csvAtStart,
                   fileVars, parseVars, calcVars>>

\* Lines 80-83.
PrintRates(p) ==
    /\ pc[p] = "rates"
    /\ out' = [out EXCEPT ![p] = @ \o RateLines(loc[p])]
    /\ pc' = [pc EXCEPT ![p] = "exists"]
    /\ UNCHANGED <<input, d, loc, write_header, buf, err, run, csvAtStart,
                   fileVars, parseVars, calcVars>>

\* Mutant: a header is written by every invocation.
CheckExistsAlways(p) ==
    /\ pc[p] = "exists"
    /\ write_header' = [write_header EXCEPT ![p] = TRUE]
    /\ pc' = [pc EXCEPT ![p] = "open"]
    /\ UNCHANGED <<input, d, loc, out, buf, err, run, csvAtStart,
                   fileVars, parseVars, calcVars>>

\* Line 109 (lines 86-107 build the row from the locals and touch nothing).
CheckExists(p) ==
    /\ pc[p] = "exists"
    /\ write_header' = [write_header EXCEPT ![p] = ~csv.exists]
    /\ pc' = [pc EXCEPT ![p] = "open"]
    /\ UNCHANGED <<input, d, loc, out, buf, err, run, csvAtStart,
                   fileVars, parseVars, calcVars>>

\* Mutant: the file is opened for writing, not for appending.
OpenTruncate(p) ==
    /\ pc[p] = "open"
    /\ \/ /\ csv' = [exists |-> TRUE, content |-> <<>>]
          /\ pc' = [pc EXCEPT ![p] = "header"]
          /\ err' = err
       \/ Fail(p, "OSError(csv)") /\ csv' = csv
    /\ UNCHANGED <<input, d, loc, out, write_header, buf, run, csvAtStart,
                   csv0, runs, hist, hdrs, parseVars, calcVars>>

\* Line 110: open(args.csv, "a") creates the file when it is absent and
\* keeps its content; it raises when the path cannot be written.
Open(p) ==
    /\ pc[p] = "open"
    /\ \/ /\ csv' = [exists |-> TRUE, content |-> csv.content]
          /\ pc' = [pc EXCEPT ![p] = "header"]
          /\ err' = err
       \/ Fail(p, "OSError(csv)") /\ csv' = csv
    /\ UNCHANGED <<input, d, loc, out, write_header, buf, run, csvAtStart,
                   csv0, runs, hist, hdrs, parseVars, calcVars>>

\* Mutant: the header is written only into a file that is still empty.
WriteHeaderIfEmpty(p) ==
    /\ pc[p] = "header"
    /\ buf' = [buf EXCEPT ![p] = IF write_header[p] /\ csv.content = <<>>
                                 THEN @ \o HeaderLine ELSE @]
    /\ pc' = [pc EXCEPT ![p] = "row"]
    /\ UNCHANGED <<input, d, loc, out, write_header, err, run, csvAtStart,
                   fileVars, parseVars, calcVars>>

\* Lines 111-113: the header goes to the buffer of the file object.
WriteHeader(p) ==
    /\ pc[p] = "header"
    /\ buf' = [buf EXCEPT ![p] = IF write_header[p] THEN @ \o HeaderLine ELSE @]
    /\ pc' = [pc EXCEPT ![p] = "row"]
    /\ UNCHANGED <<input, d, loc, out, write_header, err, run, csvAtStart,
                   fileVars, parseVars, calcVars>>

\* Line 114.
WriteRow(p) ==
    /\ pc[p] = "row"
    /\ buf' = [buf EXCEPT ![p] = @ \o RowLine(row(loc[p]))]
    /\ pc' = [pc EXCEPT ![p] = "close"]
    /\ UNCHANGED <<input, d, loc, out, write_header, err, run, csvAtStart,
                   fileVars, parseVars, calcVars>>

\* End of the with block: the buffer is flushed, appended to the file in
\* one write, and the file is closed.  hist and hdrs record the rows of the
\* invocations that succeeded and how many of them had seen no file.
Close(p) ==
    /\ pc[p] = "close"
    /\ csv' = [exists |-> TRUE, content |-> csv.content \o buf[p]]
    /\ buf' = [buf EXCEPT ![p] = <<>>]
    /\ pc' = [pc EXCEPT ![p] = "done"]
    /\ hist' = Append(hist, row(loc[p]))
    /\ hdrs' = IF write_header[p] THEN hdrs + 1 ELSE hdrs
    /\ UNCHANGED <<input, d, loc, out, write_header, err, run, csvAtStart,
                   csv0, runs, parseVars, calcVars>>

Step(p) ==
    \/ Read(p) \/ Parse(p) \/ Compute(p) \/ PrintCounters(p) \/ PrintRates(p)
    \/ CheckExists(p) \/ Open(p) \/ WriteHeader(p) \/ WriteRow(p) \/ Close(p)

\* Invocations one after the other against a path in any initial state.
SeqInit == ParseIdle /\ CalcIdle /\ ProcIdle /\ \E f \in Csv0Set : FileIdle(f)
SeqNext == \E p \in Procs : StartSeq(p) \/ Step(p)
SeqSpec == SeqInit /\ [][SeqNext]_vars

\* Invocations that may overlap, against a path that does not exist.
Init == ParseIdle /\ CalcIdle /\ ProcIdle /\ FileIdle(AbsentFile)
Next == \E p \in Procs : Start(p) \/ Step(p)
Spec == Init /\ [][Next]_vars

\* ------------------------------------------------------------------ claims on the CSV file
\* The file as a reader sees it: rows ended by the line terminator (an
\* unfinished last line is a row too), each cut into cells at the commas.
RECURSIVE CutAt(_, _, _, _)
CutAt(s, sep, i, cur) ==
    IF i > Len(s) THEN <<cur>>
    ELSE IF s[i] = sep THEN <<cur>> \o CutAt(s, sep, i + 1, <<>>)
    ELSE CutAt(s, sep, i + 1, Append(cur, s[i]))

CsvRows(content) ==
    LET parts == CutAt(content, CRLF, 1, <<>>)
        lines == IF parts[Len(parts)] = <<>> THEN SubSeq(parts, 1, Len(parts) - 1) ELSE parts
    IN [i \in 1..Len(lines) |-> CutAt(lines[i], Comma, 1, <<>>)]

HeaderCells == [i \in 1..Len(fieldnames) |-> <<fieldnames[i]>>]

\* The cells the claim expects for a row dictionary, column by column.
RowCells(r) == [i \in 1..Len(fieldnames) |-> str(r[fieldnames[i]])]

HeaderRows(content) == {i \in 1..Len(CsvRows(content)) : CsvRows(content)[i] = HeaderCells}

\* Every line of the content is finished by its terminator.
Complete(content) == content = <<>> \/ content[Len(content)] = CRLF

\* The invocation of p is the most recent one.
Latest(p) == run[p] = runs

\* C1: from a path that did not exist, after N >= 1 successful invocations
\* one after the other the file holds one header row, as its first row, and
\* then the N data rows in the order of the invocations.
C1_HeaderOnce ==
    (csv0 = AbsentFile /\ Quiescent /\ Len(hist) >= 1) =>
        /\ csv.exists
        /\ Len(CsvRows(csv.content)) = Len(hist) + 1
        /\ HeaderRows(csv.content) = {1}
        /\ \A i \in 1..Len(hist) : CsvRows(csv.content)[i + 1] = RowCells(hist[i])

\* Three invocations succeeded against a fresh path, with different rows.
C1_Witness ==
    /\ csv0 = AbsentFile /\ Quiescent /\ Len(hist) = 3
    /\ hist[1] # hist[2]
    /\ Len(CsvRows(csv.content)) = 4

\* C6 as amended: an invocation that succeeds against a path that exists
\* appends exactly its one row line of 13 cells, null rates and an absent
\* cycles_bus_busy as empty cells, after the unchanged earlier content and
\* writes no header; when that content was empty or ended with a line
\* terminator, the rows read back are the earlier rows and then the new one.
C6_AppendOnly ==
    \A p \in Procs :
        (pc[p] = "done" /\ Latest(p) /\ csvAtStart[p].exists) =>
            LET before == csvAtStart[p].content
                cells == RowCells(row(loc[p]))
                Cell(f) == cells[CHOOSE i \in 1..Len(fieldnames) : fieldnames[i] = f]
            IN /\ ~write_header[p]
               /\ Len(csv.content) > Len(before)
               /\ SubSeq(csv.content, 1, Len(before)) = before
               /\ CsvRows(SubSeq(csv.content, Len(before) + 1, Len(csv.content))) = <<cells>>
               /\ csv.content[Len(csv.content)] = CRLF
               /\ Len(cells) = 13
               /\ \A i \in 1..Len(RateFields) :
                     loc[p][RateFields[i]] = None => Cell(RateFields[i]) = <<>>
               /\ Key("cycles_bus_busy") \notin DOMAIN d[p] => Cell("cycles_bus_busy") = <<>>
               /\ Complete(before) => CsvRows(csv.content) = CsvRows(before) \o <<cells>>

\* A row with empty cells was appended to a file that held a row and no
\* header.
C6_Witness ==
    \E p \in Procs :
        /\ pc[p] = "done" /\ Latest(p)
        /\ csvAtStart[p].content = <<"old", Comma, "7", CRLF>>
        /\ loc[p].bus_utilization = None
        /\ CsvRows(csv.content)[1] = <<<<"old">>, <<"7">>>>
        /\ Len(CsvRows(csv.content)) = 2

\* C6 as claimed: whatever the file held, its rows are unchanged and followed
\* by exactly one new row of 13 cells.
C6_AnyContent ==
    \A p \in Procs :
        (pc[p] = "done" /\ Latest(p) /\ csvAtStart[p].exists) =>
            /\ ~write_header[p]
            /\ CsvRows(csv.content) =
                  CsvRows(csvAtStart[p].content) \o <<RowCells(row(loc[p]))>>

\* C8: a run whose input cannot be read has printed nothing and has left the
\* CSV path as it was, absent or present.
C8_InputFailure ==
    \A p \in Procs :
        (pc[p] = "failed" /\ err[p] = "OSError(input)") =>
            /\ out[p] = <<>>
            /\ buf[p] = <<>>
            /\ Latest(p) => csv = csvAtStart[p]

\* The input was missing and the CSV path is still absent.
C8_Witness ==
    \E p \in Procs :
        /\ pc[p] = "failed" /\ err[p] = "OSError(input)" /\ Latest(p)
        /\ ~csv.exists

\* C10: the existence check and the opening of the CSV come after the whole
\* table, rate lines included; a run that fails on the CSV path has printed
\* the whole table and written nothing.
C10_TableBeforeCsv ==
    \A p \in Procs :
        /\ (pc[p] \in {"exists", "open", "header", "row", "close", "done"}
              \/ (pc[p] = "failed" /\ err[p] = "OSError(csv)")) =>
              /\ out[p] = Table(loc[p])
              /\ Len(out[p]) \in {15, 16}
              /\ SubSeq(out[p], Len(out[p]) - 3, Len(out[p])) = RateLines(loc[p])
        /\ pc[p] \in {"read", "parse", "compute", "print", "rates"} =>
              /\ buf[p] = <<>>
              /\ Latest(p) => csv = csvAtStart[p]
        /\ (pc[p] = "failed" /\ err[p] = "OSError(csv)") =>
              /\ buf[p] = <<>>
              /\ Latest(p) => csv = csvAtStart[p]

\* The CSV path could not be opened after a table with the cycles_bus_busy
\* line was printed.
C10_Witness ==
    \E p \in Procs :
        /\ pc[p] = "failed" /\ err[p] = "OSError(csv)"
        /\ Len(out[p]) = 16
        /\ ~csv.exists

\* C5: overlapping invocations are not coordinated: each one that saw no
\* file at its existence check writes a header when it appends, whatever the
\* file holds by then, so the file has as many header rows as invocations
\* that saw it absent.
C5_HeaderPerAbsentCheck ==
    Quiescent => Cardinality(HeaderRows(csv.content)) = hdrs

\* Two invocations both saw the file absent: the file ends with two header
\* rows, the second one after a data row.
C5_Witness ==
    /\ Quiescent
    /\ HeaderRows(csv.content) = {1, 3}
    /\ Len(CsvRows(csv.content)) = 4
    /\ CsvRows(csv.content)[2] # HeaderCells

====
